---- MODULE Spec2Model ----
(***************************************************************************)
(* Model of localstack/utils/async_utils.py: the AdaptiveThreadPool, the   *)
(* run_sync bridge between an asyncio loop and the pool, the AsyncThread   *)
(* loop threads and the registry of named event loops.                     *)
(***************************************************************************)
EXTENDS Integers, Sequences, FiniteSets, TLC

\* ------------------------------------------------------------------ bounds
NTasks == 3         \* tasks handed to the pool
CoreSize == 2       \* core_size the pool is constructed with
MaxVal == 0         \* largest return value / fault code a callable can produce
MaxThreads == 3     \* AsyncThreads ever started
MaxDirect == 1      \* AsyncThreads started by direct run_async calls
NNames == 1         \* names asked of get_named_event_loop
NCallers == 2       \* threads calling get_named_event_loop
NStoppers == 2      \* threads calling AsyncThread.stop
NItems == 2         \* items ever put on the queue
NReceivers == 2     \* calls of receive_from_queue
NCtx == 2           \* coroutines that call run_sync with a context variable set
MaxCtx == 1         \* largest value of the context variable
MaxLen == 5         \* longest response payload, in symbols

TaskIds == 1..NTasks
NoTask == 0

\* What a direct synchronous call fn(*args) does: return a value or raise.
Outcomes == [kind : {"value", "fault"}, val : 0..MaxVal]
NoOutcome == [kind |-> "none", val |-> 0]

\* concurrent.futures.Future cell: pending, or completed with result/exception.
PendingFuture == [state |-> "pending", val |-> 0]
Futures == {PendingFuture} \cup [state : {"result", "exception"}, val : 0..MaxVal]

ThreadIds == 1..MaxThreads
NoThread == 0
Names == 1..NNames
Callers == 1..NCallers
Stoppers == 1..NStoppers
\* THREAD_POOL as an element of TMP_THREADS
ThreadPoolEntry == 0
Items == 1..NItems
NoItem == 0
Receivers == 1..NReceivers
CtxTasks == 1..NCtx
CtxVals == 0..MaxCtx
\* the value a ContextVar has in a context that never set it
CtxDefault == 0
NoRead == MaxCtx + 1
\* the symbols of a response payload: ">", a digit, a blank, "Z", the closing
\* tag </creationTimestamp> ("E"), a two-byte character, an invalid byte
Alphabet == {">", "0", " ", "Z", "E", "e2", "B"}
Payloads == UNION {[1..n -> Alphabet] : n \in 0..MaxLen}

VARIABLES
    hasSem,         \* the executor has an _idle_semaphore (Python >= 3.8)
    idleSem,        \* value of ThreadPoolExecutor._idle_semaphore
    pworkers,       \* ThreadPoolExecutor._threads: per thread its task, NoTask when waiting
    workQueue,      \* ThreadPoolExecutor._work_queue
    status,         \* per task: "new", "queued", "spawned", "running", "done"
    ranOn,          \* per task: "none", "persistent", "transient"
    spareAtSubmit,  \* per task: the pool had spare persistent capacity at submit
    fn,             \* per task: what fn(*args, **kwargs) does when called
    future,         \* per task: the future returned by submit
    callerFault,    \* per task: fault raised on the thread that called submit
    gate,           \* the event the blocking callables wait for
    co,             \* per task: state of the coroutine that may run_sync it
    current,        \* the coroutine the event loop is executing (NoTask: none)
    coOutcome       \* per task: what `await run_sync(...)` produced

VARIABLES
    tpc,            \* per AsyncThread: "absent", "started", "init", "until_complete",
                    \*   "forever", "died", "terminated"
    tkind,          \* per AsyncThread: its async_func_gen: "none", "register", "waiter"
    tname,          \* per AsyncThread: the name a registering async_func_gen records
    shutdown_event, \* per AsyncThread: self.shutdown_event refers to the event
    eventSet,       \* per AsyncThread: the asyncio.Event made by run_func is set
    initEvent,      \* per AsyncThread: what async_func_gen received: "unset", "event", "None"
    EVENT_LOOPS,    \* name -> loop (the loop of thread th is th; NoThread: no entry)
    TMP_THREADS,    \* the list localstack.utils.common.TMP_THREADS
    gpc,            \* per caller of get_named_event_loop: "idle", "spawn", "sleep",
                    \*   "done", "fault"
    gname,          \* per caller: the name asked for
    gret,           \* per caller: the loop returned
    gfast,          \* per caller: the call returned the handle it found registered
    gthread,        \* per caller: the loop thread the call started
    spc,            \* per caller of stop: "idle", "set", "clear", "fault"
    starget,        \* per caller of stop: the AsyncThread
    stopLog,        \* per AsyncThread: what the stop() calls so far found: "none",
                    \*   "miss" (no shutdown_event), "hit" (shutdown_event),
                    \*   "hit_noop" (no shutdown_event after an earlier hit)
    overlap         \* per AsyncThread: two stop() calls overlapped

VARIABLES
    INFRA_STOPPED,  \* common.INFRA_STOPPED
    queue,          \* the queue handed to receive_from_queue
    produced,       \* number of items put on the queue so far
    rpc,            \* per receive_from_queue call: "idle", "check", "get", "got",
                    \*   "returned", "raised"
    rres,           \* per call: what get() returned on the worker (NoItem: None)
    rmsg,           \* per call: the msg receive_from_queue returned
    rlast           \* per call: how the last queue.get ended: "none", "item",
                    \*   "timeout", "fault"

queueVars == <<INFRA_STOPPED, queue, produced, rpc, rres, rmsg, rlast>>

VARIABLES
    store,          \* context objects: the value each holds for the context variable
    wctx,           \* per run_sync call: the context object the function runs in
    cpc,            \* per coroutine: "ready", "suspended", "fnread", "fndone", "resumed"
    atCall,         \* per coroutine: its value of the variable at the run_sync call
    readVal,        \* per run_sync call: the value the function read
    seen            \* per coroutine: the value it reads after it resumed

ctxVars == <<store, wctx, cpc, atCall, readVal, seen>>

VARIABLES
    content,        \* response._content
    contentLength,  \* response.headers['Content-Length']
    ppc             \* "idle": no response yet, "in": response received,
                    \* "out": return_response has run

patchVars == <<content, contentLength, ppc>>

extVars == <<queueVars, ctxVars, patchVars>>

threadVars == <<tpc, tkind, tname, shutdown_event, eventSet, initEvent, EVENT_LOOPS,
                TMP_THREADS, gpc, gname, gret, gfast, gthread, spc, starget, stopLog,
                overlap>>

poolVars == <<hasSem, idleSem, pworkers, workQueue, status, ranOn, spareAtSubmit,
              fn, future, callerFault, gate, co, current, coOutcome>>

vars == <<poolVars, threadVars, extVars>>

\* ------------------------------------------------------------ pool helpers
\* a constructor that hands the executor one worker too many
max_workers_plus == CoreSize + 1

\* AdaptiveThreadPool.__init__: max_workers = core_size
max_workers == CoreSize

\* number of persistent threads that are live and not running a task
IdleWorkers == {w \in 1..Len(pworkers) : pworkers[w] = NoTask}

\* the pool has spare persistent capacity
SpareCapacity == IdleWorkers # {} \/ Len(pworkers) < CoreSize

has_idle_threads_le ==
    IF hasSem THEN idleSem > 0 ELSE Len(pworkers) <= max_workers

\* AdaptiveThreadPool.has_idle_threads: result
has_idle_threads ==
    IF hasSem THEN idleSem > 0 ELSE Len(pworkers) < max_workers

\* AdaptiveThreadPool.has_idle_threads: the semaphore after acquire(timeout=0)
SemAfterProbe == IF hasSem /\ idleSem > 0 THEN idleSem - 1 ELSE idleSem

\* ThreadPoolExecutor._adjust_thread_count, entered with semaphore value s:
\* the new value of <<semaphore, threads>>
adjust_thread_count(s) ==
    IF hasSem /\ s > 0
    THEN <<s - 1, pworkers>>
    ELSE IF Len(pworkers) < max_workers
         THEN <<s, Append(pworkers, NoTask)>>
         ELSE <<s, pworkers>>

\* _WorkItem.run of the inherited executor: fn's outcome stored in the future
WorkItemRun(o) ==
    IF o.kind = "fault" THEN [state |-> "exception", val |-> o.val]
                        ELSE [state |-> "result", val |-> o.val]

\* FuncThread.run (localstack.utils.common): _run's outcome stored in
\* thread.result_future; a fault is captured into the future
FuncThreadRun(o) ==
    IF o.kind = "fault" THEN [state |-> "exception", val |-> o.val]
                        ELSE [state |-> "result", val |-> o.val]

\* a bridge that hands back whatever the future holds without re-raising
DeliverNoRaise(f) == [kind |-> "value", val |-> f.val]

\* run_sync's await: the outcome a completed future delivers at the resume
\* point (the result, or the captured fault re-raised)
Deliver(f) ==
    IF f.state = "exception" THEN [kind |-> "fault", val |-> f.val]
                             ELSE [kind |-> "value", val |-> f.val]

\* ------------------------------------------------------------------- Init
PoolInit ==
    /\ hasSem \in BOOLEAN
    /\ idleSem = 0
    /\ pworkers = <<>>
    /\ workQueue = <<>>
    /\ status = [t \in TaskIds |-> "new"]
    /\ ranOn = [t \in TaskIds |-> "none"]
    /\ spareAtSubmit = [t \in TaskIds |-> FALSE]
    /\ fn = [t \in TaskIds |-> NoOutcome]
    /\ future = [t \in TaskIds |-> PendingFuture]
    /\ callerFault = [t \in TaskIds |-> NoOutcome]
    /\ gate = FALSE
    /\ co = [t \in TaskIds |-> "ready"]
    /\ current = NoTask
    /\ coOutcome = [t \in TaskIds |-> NoOutcome]

ThreadInit ==
    /\ tpc = [th \in ThreadIds |-> "absent"]
    /\ tkind = [th \in ThreadIds |-> "none"]
    /\ tname = [th \in ThreadIds |-> 0]
    /\ shutdown_event = [th \in ThreadIds |-> FALSE]
    /\ eventSet = [th \in ThreadIds |-> FALSE]
    /\ initEvent = [th \in ThreadIds |-> "unset"]
    /\ EVENT_LOOPS = [n \in Names |-> NoThread]
    /\ TMP_THREADS = <<ThreadPoolEntry>>
    /\ gpc = [c \in Callers |-> "idle"]
    /\ gname = [c \in Callers |-> 0]
    /\ gret = [c \in Callers |-> NoThread]
    /\ gfast = [c \in Callers |-> FALSE]
    /\ gthread = [c \in Callers |-> NoThread]
    /\ spc = [s \in Stoppers |-> "idle"]
    /\ starget = [s \in Stoppers |-> NoThread]
    /\ stopLog = [th \in ThreadIds |-> "none"]
    /\ overlap = [th \in ThreadIds |-> FALSE]

QueueInit ==
    /\ INFRA_STOPPED = FALSE
    /\ queue = <<>>
    /\ produced = 0
    /\ rpc = [r \in Receivers |-> "idle"]
    /\ rres = [r \in Receivers |-> NoItem]
    /\ rmsg = [r \in Receivers |-> NoItem]
    /\ rlast = [r \in Receivers |-> "none"]

\* context object t is coroutine t's own, NCtx + t the copy made for its call
CtxInit ==
    /\ store = [c \in 1..(2 * NCtx) |-> CtxDefault]
    /\ wctx = [t \in CtxTasks |-> 0]
    /\ cpc = [t \in CtxTasks |-> "ready"]
    /\ atCall = [t \in CtxTasks |-> CtxDefault]
    /\ readVal = [t \in CtxTasks |-> NoRead]
    /\ seen = [t \in CtxTasks |-> NoRead]

\* ------------------------------------------------------ fix_creation_date
\* to_str(response._content) succeeds: the bytes decode as text
Decodable(s) == \A i \in 1..Len(s) : s[i] # "B"

\* number of characters / of UTF-8 bytes of one symbol
CharLen(c) == IF c = "E" THEN 20 ELSE 1
ByteLen(c) == IF c = "E" THEN 20 ELSE IF c = "e2" THEN 2 ELSE 1

RECURSIVE StrLen(_)
\* len() of the text
StrLen(s) == IF s = <<>> THEN 0 ELSE CharLen(Head(s)) + StrLen(Tail(s))

RECURSIVE ByteLength(_)
\* number of bytes of the text encoded as UTF-8
ByteLength(s) == IF s = <<>> THEN 0 ELSE ByteLen(Head(s)) + ByteLength(Tail(s))

\* the character classes of the pattern: \s, [0-9-], [0-9:.]
SpaceChars == {" "}
DateChars == {"0"}
TimeChars == {"0"}

RECURSIVE SkipWhile(_, _, _)
\* a greedy class repetition from position i: the first position not in cls
SkipWhile(s, i, cls) ==
    IF i <= Len(s) /\ s[i] \in cls THEN SkipWhile(s, i + 1, cls) ELSE i

\* the positions of a match of
\*   >\s*([0-9-]+) ([0-9:.]+)Z?\s*</creationTimestamp>
\* that starts at i: start of the date, the blank, end of the time, the tag
DateStart(s, i) == SkipWhile(s, i + 1, SpaceChars)
BlankPos(s, i) == SkipWhile(s, DateStart(s, i), DateChars)
TimeEnd(s, i) == SkipWhile(s, BlankPos(s, i) + 1, TimeChars)
TagPos(s, i) ==
    LET m == TimeEnd(s, i)
        n == IF m <= Len(s) /\ s[m] = "Z" THEN m + 1 ELSE m
    IN  SkipWhile(s, n, SpaceChars)

\* the pattern matches at position i
MatchesAt(s, i) ==
    /\ s[i] = ">"
    /\ BlankPos(s, i) > DateStart(s, i)
    /\ BlankPos(s, i) <= Len(s)
    /\ s[BlankPos(s, i)] = " "
    /\ TimeEnd(s, i) > BlankPos(s, i) + 1
    /\ TagPos(s, i) <= Len(s)
    /\ s[TagPos(s, i)] = "E"

\* the replacement >\1T\2Z</creationTimestamp> for the match at i
Replacement(s, i) ==
    <<">">> \o SubSeq(s, DateStart(s, i), BlankPos(s, i) - 1) \o <<"T">>
        \o SubSeq(s, BlankPos(s, i) + 1, TimeEnd(s, i) - 1) \o <<"Z", "E">>

RECURSIVE SubFrom(_, _)
\* re.sub from position i on: every match replaced, the rest copied
SubFrom(s, i) ==
    IF i > Len(s) THEN <<>>
    ELSE IF MatchesAt(s, i)
         THEN Replacement(s, i) \o SubFrom(s, TagPos(s, i) + 1)
         ELSE <<s[i]>> \o SubFrom(s, i + 1)

\* no response has come back from the backend yet
PatchInit ==
    /\ content = <<>>
    /\ contentLength = 0
    /\ ppc = "idle"

Init == PoolInit /\ ThreadInit /\ QueueInit /\ CtxInit /\ PatchInit

\* ---------------------------------------------------------------- actions
\* tasks are interchangeable: they are taken up in the order of their ids
Earlier(t) == \A u \in TaskIds : u < t => (status[u] # "new" \/ co[u] # "ready")

\* AdaptiveThreadPool.submit(fn): effect on the pool
\* super().submit(fn): enqueue the work item, adjust the thread count
ExecutorSubmit(t) ==
    /\ workQueue' = Append(workQueue, t)
    /\ idleSem' = adjust_thread_count(SemAfterProbe)[1]
    /\ pworkers' = adjust_thread_count(SemAfterProbe)[2]
    /\ status' = [status EXCEPT ![t] = "queued"]
    /\ ranOn' = [ranOn EXCEPT ![t] = "persistent"]

\* start_worker_thread(_run): a new thread that runs this one task
StartWorkerThread(t) ==
    /\ status' = [status EXCEPT ![t] = "spawned"]
    /\ ranOn' = [ranOn EXCEPT ![t] = "transient"]
    /\ UNCHANGED <<workQueue, idleSem, pworkers>>

\* a bounded pool: submit waits until the core pool has capacity
submit_waiting(t, o) ==
    /\ status[t] = "new"
    /\ has_idle_threads
    /\ fn' = [fn EXCEPT ![t] = o]
    /\ spareAtSubmit' = [spareAtSubmit EXCEPT ![t] = SpareCapacity]
    /\ ExecutorSubmit(t)
    /\ UNCHANGED <<hasSem, future, callerFault, gate>>

\* an overflow path that calls _run on the submitting thread
submit_inline(t, o) ==
    /\ status[t] = "new"
    /\ fn' = [fn EXCEPT ![t] = o]
    /\ spareAtSubmit' = [spareAtSubmit EXCEPT ![t] = SpareCapacity]
    /\ IF has_idle_threads
       THEN /\ ExecutorSubmit(t)
            /\ UNCHANGED <<future, callerFault>>
       ELSE /\ status' = [status EXCEPT ![t] = "done"]
            /\ ranOn' = [ranOn EXCEPT ![t] = "transient"]
            /\ future' = [future EXCEPT ![t] =
                    IF o.kind = "fault" THEN @ ELSE FuncThreadRun(o)]
            /\ callerFault' = [callerFault EXCEPT ![t] =
                    IF o.kind = "fault" THEN o ELSE @]
            /\ UNCHANGED <<workQueue, idleSem, pworkers>>
    /\ UNCHANGED <<hasSem, gate>>

\* AdaptiveThreadPool.submit(fn): effect on the pool
submit(t, o) ==
    /\ status[t] = "new"
    /\ fn' = [fn EXCEPT ![t] = o]
    /\ spareAtSubmit' = [spareAtSubmit EXCEPT ![t] = SpareCapacity]
    /\ IF has_idle_threads THEN ExecutorSubmit(t) ELSE StartWorkerThread(t)
    /\ UNCHANGED <<hasSem, future, callerFault, gate>>

\* a thread calls THREAD_POOL.submit(fn) directly
CallSubmit(t, o) ==
    /\ UNCHANGED <<threadVars, extVars>>
    /\ co[t] = "ready"
    /\ Earlier(t)
    /\ submit(t, o)
    /\ UNCHANGED <<co, current, coOutcome>>

\* ThreadPoolExecutor _worker: a persistent thread takes the next work item
WorkerTake(w) ==
    /\ UNCHANGED <<threadVars, extVars>>
    /\ w \in 1..Len(pworkers)
    /\ pworkers[w] = NoTask
    /\ workQueue # <<>>
    /\ pworkers' = [pworkers EXCEPT ![w] = Head(workQueue)]
    /\ workQueue' = Tail(workQueue)
    /\ status' = [status EXCEPT ![Head(workQueue)] = "running"]
    /\ UNCHANGED <<hasSem, idleSem, ranOn, spareAtSubmit, fn, future, callerFault,
                   gate, co, current, coOutcome>>

\* ThreadPoolExecutor _worker: work_item.run() completes, semaphore released
WorkerFinish(w) ==
    /\ UNCHANGED <<threadVars, extVars>>
    /\ w \in 1..Len(pworkers)
    /\ pworkers[w] \in TaskIds
    /\ gate
    /\ LET t == pworkers[w] IN
        /\ future' = [future EXCEPT ![t] = WorkItemRun(fn[t])]
        /\ status' = [status EXCEPT ![t] = "done"]
    /\ pworkers' = [pworkers EXCEPT ![w] = NoTask]
    /\ idleSem' = IF hasSem THEN idleSem + 1 ELSE idleSem
    /\ UNCHANGED <<hasSem, workQueue, ranOn, spareAtSubmit, fn, callerFault,
                   gate, co, current, coOutcome>>

\* the transient thread made by start_worker_thread begins to run _run
TransientStart(t) ==
    /\ UNCHANGED <<threadVars, extVars>>
    /\ status[t] = "spawned"
    /\ status' = [status EXCEPT ![t] = "running"]
    /\ UNCHANGED <<hasSem, idleSem, pworkers, workQueue, ranOn, spareAtSubmit, fn,
                   future, callerFault, gate, co, current, coOutcome>>

\* FuncThread.run: _run returns or raises, result_future is completed
TransientFinish(t) ==
    /\ UNCHANGED <<threadVars, extVars>>
    /\ status[t] = "running"
    /\ ranOn[t] = "transient"
    /\ gate
    /\ future' = [future EXCEPT ![t] = FuncThreadRun(fn[t])]
    /\ status' = [status EXCEPT ![t] = "done"]
    /\ UNCHANGED <<hasSem, idleSem, pworkers, workQueue, ranOn, spareAtSubmit, fn,
                   callerFault, gate, co, current, coOutcome>>

\* the event the blocking callables wait for is set once all of them block
OpenGate ==
    /\ UNCHANGED <<threadVars, extVars>>
    /\ ~gate
    /\ \E t \in TaskIds : status[t] = "running"
    /\ \A t \in TaskIds : status[t] \notin {"queued", "spawned"}
    /\ gate' = TRUE
    /\ UNCHANGED <<hasSem, idleSem, pworkers, workQueue, status, ranOn, spareAtSubmit,
                   fn, future, callerFault, co, current, coOutcome>>

\* the event loop picks a ready coroutine and runs it up to its run_sync call
CoStart(t) ==
    /\ UNCHANGED <<threadVars, extVars>>
    /\ current = NoTask
    /\ co[t] = "ready"
    /\ status[t] = "new"
    /\ Earlier(t)
    /\ co' = [co EXCEPT ![t] = "running"]
    /\ current' = t
    /\ UNCHANGED <<hasSem, idleSem, pworkers, workQueue, status, ranOn, spareAtSubmit,
                   fn, future, callerFault, gate, coOutcome>>

\* a bridge that waits for the future on the loop thread instead of awaiting
run_sync_blocking(t, o) ==
    /\ UNCHANGED <<threadVars, extVars>>
    /\ co[t] = "running"
    /\ current = t
    /\ submit(t, o)
    /\ UNCHANGED <<co, current, coOutcome>>

\* run_sync: loop.run_in_executor(thread_pool, ...) submits, the await suspends
run_sync(t, o) ==
    /\ UNCHANGED <<threadVars, extVars>>
    /\ co[t] = "running"
    /\ current = t
    /\ submit(t, o)
    /\ co' = [co EXCEPT ![t] = "suspended"]
    /\ current' = NoTask
    /\ UNCHANGED coOutcome

\* the loop resumes the coroutine awaiting a completed future
CoResume(t) ==
    /\ UNCHANGED <<threadVars, extVars>>
    /\ co[t] = "suspended"
    /\ current = NoTask
    /\ future[t].state # "pending"
    /\ co' = [co EXCEPT ![t] = "resumed"]
    /\ current' = t
    /\ coOutcome' = [coOutcome EXCEPT ![t] = Deliver(future[t])]
    /\ UNCHANGED <<hasSem, idleSem, pworkers, workQueue, status, ranOn, spareAtSubmit,
                   fn, future, callerFault, gate>>

\* the resumed coroutine runs to its end and gives the loop back
CoEnd(t) ==
    /\ UNCHANGED <<threadVars, extVars>>
    /\ co[t] = "resumed"
    /\ current = t
    /\ co' = [co EXCEPT ![t] = "finished"]
    /\ current' = NoTask
    /\ UNCHANGED <<hasSem, idleSem, pworkers, workQueue, status, ranOn, spareAtSubmit,
                   fn, future, callerFault, gate, coOutcome>>

\* ------------------------------------------------- AsyncThread and registry
asyncVars == <<tpc, tkind, tname, shutdown_event, eventSet, initEvent>>
regVars == <<EVENT_LOOPS, TMP_THREADS>>
getVars == <<gpc, gname, gret, gfast, gthread>>
stopVars == <<spc, starget, stopLog, overlap>>

Started == {th \in ThreadIds : tpc[th] # "absent"}
NextThread == Cardinality(Started) + 1
\* calls of get_named_event_loop that are about to start a thread
Reserved == Cardinality({c \in Callers : gpc[c] = "spawn"})
CanStartThread == Cardinality(Started) + Reserved < MaxThreads

\* AsyncThread.run_async: AsyncThread(func), thread.start(), TMP_THREADS.append
run_async(th, k, n) ==
    /\ th \in ThreadIds
    /\ tpc[th] = "absent"
    /\ tpc' = [tpc EXCEPT ![th] = "started"]
    /\ tkind' = [tkind EXCEPT ![th] = k]
    /\ tname' = [tname EXCEPT ![th] = n]
    /\ TMP_THREADS' = Append(TMP_THREADS, th)
    /\ UNCHANGED <<shutdown_event, eventSet, initEvent, EVENT_LOOPS>>

\* some code calls AsyncThread.run_async(func) with no func or a waiting one
RunAsyncDirect(k) ==
    /\ CanStartThread
    /\ Cardinality({th \in Started : tkind[th] # "register"}) < MaxDirect
    /\ run_async(NextThread, k, 0)
    /\ UNCHANGED <<extVars, poolVars, getVars, stopVars>>

\* run_func, lines 58-59: the thread obtains its loop and makes shutdown_event
RunFuncBegin(th) ==
    /\ tpc[th] = "started"
    /\ tpc' = [tpc EXCEPT ![th] = "init"]
    /\ shutdown_event' = [shutdown_event EXCEPT ![th] = TRUE]
    /\ UNCHANGED <<tkind, tname, eventSet, initEvent>>
    /\ UNCHANGED <<extVars, poolVars, regVars, getVars, stopVars>>

\* run_func, lines 60-64: async_func_gen(loop, self.shutdown_event) is called;
\* without a coroutine to complete the thread enters loop.run_forever()
RunInitializer(th) ==
    /\ tpc[th] = "init"
    /\ initEvent' = [initEvent EXCEPT ![th] =
            IF tkind[th] = "none" THEN @
            ELSE IF shutdown_event[th] THEN "event" ELSE "None"]
    /\ EVENT_LOOPS' = IF tkind[th] = "register"
                      THEN [EVENT_LOOPS EXCEPT ![tname[th]] = th]
                      ELSE EVENT_LOOPS
    /\ tpc' = [tpc EXCEPT ![th] =
            IF tkind[th] = "waiter"
            THEN (IF shutdown_event[th] THEN "until_complete" ELSE "died")
            ELSE "forever"]
    /\ UNCHANGED <<tkind, tname, shutdown_event, eventSet, TMP_THREADS>>
    /\ UNCHANGED <<extVars, poolVars, getVars, stopVars>>

\* run_func, lines 63-64: the coroutine that waits for the shutdown event
\* completes, run_until_complete returns and the thread enters run_forever()
WaiterObserve(th) ==
    /\ tpc[th] = "until_complete"
    /\ eventSet[th]
    /\ tpc' = [tpc EXCEPT ![th] = "forever"]
    /\ UNCHANGED <<tkind, tname, shutdown_event, eventSet, initEvent>>
    /\ UNCHANGED <<extVars, poolVars, regVars, getVars, stopVars>>

\* stop callers that are between the check and the end of a call on th
StopInFlight(th) == {s \in Stoppers : spc[s] \in {"set", "clear"} /\ starget[s] = th}

\* a stop that calls set() without looking at shutdown_event first
StopCall_nocheck(s, th) ==
    /\ spc[s] = "idle"
    /\ tpc[th] # "absent"
    /\ starget' = [starget EXCEPT ![s] = th]
    /\ overlap' = [overlap EXCEPT ![th] = @ \/ StopInFlight(th) # {}]
    /\ stopLog' = [stopLog EXCEPT ![th] =
            IF shutdown_event[th] THEN "hit"
            ELSE IF @ \in {"hit", "hit_noop"} THEN "hit_noop"
            ELSE "miss"]
    /\ spc' = [spc EXCEPT ![s] = "set"]
    /\ UNCHANGED <<extVars, poolVars, asyncVars, regVars, getVars>>

\* AsyncThread.stop, line 67: `if self.shutdown_event:`
StopCall(s, th) ==
    /\ spc[s] = "idle"
    /\ tpc[th] # "absent"
    /\ starget' = [starget EXCEPT ![s] = th]
    /\ overlap' = [overlap EXCEPT ![th] = @ \/ StopInFlight(th) # {}]
    /\ stopLog' = [stopLog EXCEPT ![th] =
            IF shutdown_event[th] THEN "hit"
            ELSE IF @ \in {"hit", "hit_noop"} THEN "hit_noop"
            ELSE "miss"]
    /\ spc' = [spc EXCEPT ![s] = IF shutdown_event[th] THEN "set" ELSE "idle"]
    /\ UNCHANGED <<extVars, poolVars, asyncVars, regVars, getVars>>

\* AsyncThread.stop, line 68: `self.shutdown_event.set()`
StopSet(s) ==
    /\ spc[s] = "set"
    /\ IF shutdown_event[starget[s]]
       THEN /\ eventSet' = [eventSet EXCEPT ![starget[s]] = TRUE]
            /\ spc' = [spc EXCEPT ![s] = "clear"]
       ELSE /\ spc' = [spc EXCEPT ![s] = "fault"]
            /\ UNCHANGED eventSet
    /\ UNCHANGED <<tpc, tkind, tname, shutdown_event, initEvent>>
    /\ UNCHANGED <<starget, stopLog, overlap>>
    /\ UNCHANGED <<extVars, poolVars, regVars, getVars>>

\* AsyncThread.stop, line 69: `self.shutdown_event = None`
StopClear(s) ==
    /\ spc[s] = "clear"
    /\ shutdown_event' = [shutdown_event EXCEPT ![starget[s]] = FALSE]
    /\ spc' = [spc EXCEPT ![s] = "idle"]
    /\ UNCHANGED <<tpc, tkind, tname, eventSet, initEvent>>
    /\ UNCHANGED <<starget, stopLog, overlap>>
    /\ UNCHANGED <<extVars, poolVars, regVars, getVars>>

\* a lookup that never takes the registered handle
GetCheck_nocheck(c, n) ==
    /\ gpc[c] = "idle"
    /\ CanStartThread
    /\ gname' = [gname EXCEPT ![c] = n]
    /\ gpc' = [gpc EXCEPT ![c] = "spawn"]
    /\ UNCHANGED <<gret, gfast, gthread>>
    /\ UNCHANGED <<extVars, poolVars, asyncVars, regVars, stopVars>>

\* a lookup that starts the loop thread before it looks at the registry
GetCheck_spawnfirst(c, n) ==
    /\ gpc[c] = "idle"
    /\ CanStartThread
    /\ gname' = [gname EXCEPT ![c] = n]
    /\ run_async(NextThread, "register", n)
    /\ IF EVENT_LOOPS[n] # NoThread
       THEN /\ gpc' = [gpc EXCEPT ![c] = "done"]
            /\ gret' = [gret EXCEPT ![c] = EVENT_LOOPS[n]]
            /\ gfast' = [gfast EXCEPT ![c] = TRUE]
            /\ UNCHANGED gthread
       ELSE /\ gpc' = [gpc EXCEPT ![c] = "sleep"]
            /\ UNCHANGED <<gret, gfast, gthread>>
    /\ UNCHANGED <<extVars, poolVars, stopVars>>

\* get_named_event_loop, lines 95-97: look the name up, return a handle found
GetCheck(c, n) ==
    /\ gpc[c] = "idle"
    /\ gname' = [gname EXCEPT ![c] = n]
    /\ IF EVENT_LOOPS[n] # NoThread
       THEN /\ gpc' = [gpc EXCEPT ![c] = "done"]
            /\ gret' = [gret EXCEPT ![c] = EVENT_LOOPS[n]]
            /\ gfast' = [gfast EXCEPT ![c] = TRUE]
            /\ UNCHANGED gthread
       ELSE /\ CanStartThread
            /\ gpc' = [gpc EXCEPT ![c] = "spawn"]
            /\ UNCHANGED <<gret, gfast, gthread>>
    /\ UNCHANGED <<extVars, poolVars, asyncVars, regVars, stopVars>>

\* get_named_event_loop, line 102: AsyncThread.run_async(async_func_gen)
GetSpawn(c) ==
    /\ gpc[c] = "spawn"
    /\ run_async(NextThread, "register", gname[c])
    /\ gpc' = [gpc EXCEPT ![c] = "sleep"]
    /\ gthread' = [gthread EXCEPT ![c] = NextThread]
    /\ UNCHANGED <<gname, gret, gfast>>
    /\ UNCHANGED <<extVars, poolVars, stopVars>>

\* a read-back with EVENT_LOOPS.get(name): no entry gives None, not a fault
GetReadback_get(c) ==
    /\ gpc[c] = "sleep"
    /\ gpc' = [gpc EXCEPT ![c] = "done"]
    /\ gret' = [gret EXCEPT ![c] = EVENT_LOOPS[gname[c]]]
    /\ UNCHANGED <<gname, gfast, gthread>>
    /\ UNCHANGED <<extVars, poolVars, asyncVars, regVars, stopVars>>

\* get_named_event_loop, lines 103-104: after the sleep, EVENT_LOOPS[name]
GetReadback(c) ==
    /\ gpc[c] = "sleep"
    /\ IF EVENT_LOOPS[gname[c]] # NoThread
       THEN /\ gpc' = [gpc EXCEPT ![c] = "done"]
            /\ gret' = [gret EXCEPT ![c] = EVENT_LOOPS[gname[c]]]
       ELSE /\ gpc' = [gpc EXCEPT ![c] = "fault"]
            /\ UNCHANGED gret
    /\ UNCHANGED <<gname, gfast, gthread>>
    /\ UNCHANGED <<extVars, poolVars, asyncVars, regVars, stopVars>>

\* the caller has taken the result (or the KeyError) and may call again
GetReset(c) ==
    /\ gpc[c] \in {"done", "fault"}
    /\ gpc' = [gpc EXCEPT ![c] = "idle"]
    /\ gname' = [gname EXCEPT ![c] = 0]
    /\ gret' = [gret EXCEPT ![c] = NoThread]
    /\ gfast' = [gfast EXCEPT ![c] = FALSE]
    /\ gthread' = [gthread EXCEPT ![c] = NoThread]
    /\ UNCHANGED <<extVars, poolVars, asyncVars, regVars, stopVars>>

\* ------------------------------------------------------ receive_from_queue
\* some producer puts the next item on the queue
Enqueue ==
    /\ produced < NItems
    /\ produced' = produced + 1
    /\ queue' = Append(queue, produced + 1)
    /\ UNCHANGED <<INFRA_STOPPED, rpc, rres, rmsg, rlast>>
    /\ UNCHANGED <<poolVars, threadVars, ctxVars, patchVars>>

\* process shutdown sets common.INFRA_STOPPED
SetStopped ==
    /\ ~INFRA_STOPPED
    /\ INFRA_STOPPED' = TRUE
    /\ UNCHANGED <<queue, produced, rpc, rres, rmsg, rlast>>
    /\ UNCHANGED <<poolVars, threadVars, ctxVars, patchVars>>

\* receive_from_queue, line 118: run_sync(get) puts get() on a worker thread
RecvCall(r) ==
    /\ rpc[r] = "idle"
    /\ rpc' = [rpc EXCEPT ![r] = "check"]
    /\ UNCHANGED <<INFRA_STOPPED, queue, produced, rres, rmsg, rlast>>
    /\ UNCHANGED <<poolVars, threadVars, ctxVars, patchVars>>

\* a loop that never looks at the stop flag
RecvCheck_nostop(r) ==
    /\ rpc[r] = "check"
    /\ rpc' = [rpc EXCEPT ![r] = "get"]
    /\ UNCHANGED <<INFRA_STOPPED, queue, produced, rres, rmsg, rlast>>
    /\ UNCHANGED <<poolVars, threadVars, ctxVars, patchVars>>

\* a loop that on shutdown still takes an item off the queue before it returns
RecvCheck_drain(r) ==
    /\ rpc[r] = "check"
    /\ IF INFRA_STOPPED
       THEN /\ rpc' = [rpc EXCEPT ![r] = "got"]
            /\ rres' = [rres EXCEPT ![r] = NoItem]
            /\ queue' = IF queue = <<>> THEN queue ELSE Tail(queue)
       ELSE /\ rpc' = [rpc EXCEPT ![r] = "get"]
            /\ UNCHANGED <<rres, queue>>
    /\ UNCHANGED <<INFRA_STOPPED, produced, rmsg, rlast>>
    /\ UNCHANGED <<poolVars, threadVars, ctxVars, patchVars>>

\* get(), lines 112-113: `if common.INFRA_STOPPED: return`
RecvCheck(r) ==
    /\ rpc[r] = "check"
    /\ IF INFRA_STOPPED
       THEN /\ rpc' = [rpc EXCEPT ![r] = "got"]
            /\ rres' = [rres EXCEPT ![r] = NoItem]
       ELSE /\ rpc' = [rpc EXCEPT ![r] = "get"]
            /\ UNCHANGED rres
    /\ UNCHANGED <<INFRA_STOPPED, queue, produced, rmsg, rlast>>
    /\ UNCHANGED <<poolVars, threadVars, ctxVars, patchVars>>

\* a loop that calls queue.get without returning what it got
RecvGetItem_drop(r) ==
    /\ rpc[r] = "get"
    /\ queue # <<>>
    /\ queue' = Tail(queue)
    /\ rpc' = [rpc EXCEPT ![r] = "check"]
    /\ rlast' = [rlast EXCEPT ![r] = "item"]
    /\ UNCHANGED <<INFRA_STOPPED, produced, rres, rmsg>>
    /\ UNCHANGED <<poolVars, threadVars, ctxVars, patchVars>>

\* get(), line 114: queue.get(timeout=1) obtains an item, get() returns it
RecvGetItem(r) ==
    /\ rpc[r] = "get"
    /\ queue # <<>>
    /\ rres' = [rres EXCEPT ![r] = Head(queue)]
    /\ queue' = Tail(queue)
    /\ rpc' = [rpc EXCEPT ![r] = "got"]
    /\ rlast' = [rlast EXCEPT ![r] = "item"]
    /\ UNCHANGED <<INFRA_STOPPED, produced, rmsg>>
    /\ UNCHANGED <<poolVars, threadVars, ctxVars, patchVars>>

\* get(), lines 114-116: queue.get times out (queue.Empty), caught, next round
RecvTimeout(r) ==
    /\ rpc[r] = "get"
    /\ queue = <<>>
    /\ rpc' = [rpc EXCEPT ![r] = "check"]
    /\ rlast' = [rlast EXCEPT ![r] = "timeout"]
    /\ UNCHANGED <<INFRA_STOPPED, queue, produced, rres, rmsg>>
    /\ UNCHANGED <<poolVars, threadVars, ctxVars, patchVars>>

\* get(), lines 114-116: queue.get raises some other Exception; `except
\* Exception: pass` catches it as well, next round
RecvQueueFault(r) ==
    /\ rpc[r] = "get"
    /\ rpc' = [rpc EXCEPT ![r] = "check"]
    /\ rlast' = [rlast EXCEPT ![r] = "fault"]
    /\ UNCHANGED <<INFRA_STOPPED, queue, produced, rres, rmsg>>
    /\ UNCHANGED <<poolVars, threadVars, ctxVars, patchVars>>

\* receive_from_queue, lines 118-119: the await resumes with get()'s result
RecvResume(r) ==
    /\ rpc[r] = "got"
    /\ rmsg' = [rmsg EXCEPT ![r] = rres[r]]
    /\ rpc' = [rpc EXCEPT ![r] = "returned"]
    /\ UNCHANGED <<INFRA_STOPPED, queue, produced, rres, rlast>>
    /\ UNCHANGED <<poolVars, threadVars, ctxVars, patchVars>>

QueueNext ==
    \/ Enqueue
    \/ SetStopped
    \/ \E r \in Receivers : RecvCall(r)
    \/ \E r \in Receivers : RecvCheck(r)
    \/ \E r \in Receivers : RecvGetItem(r)
    \/ \E r \in Receivers : RecvTimeout(r)
    \/ \E r \in Receivers : RecvQueueFault(r)
    \/ \E r \in Receivers : RecvResume(r)

\* ---------------------------------------------- run_sync and the context
\* the coroutine sets the context variable in its own context
CtxSet(t, v) ==
    /\ cpc[t] = "ready"
    /\ store' = [store EXCEPT ![t] = v]
    /\ UNCHANGED <<wctx, cpc, atCall, readVal, seen>>
    /\ UNCHANGED <<poolVars, threadVars, queueVars, patchVars>>

\* a bridge that hands func itself to the executor: it runs in the worker
\* thread's own, empty context
run_sync_noctx(t) ==
    /\ cpc[t] = "ready"
    /\ wctx' = [wctx EXCEPT ![t] = NCtx + t]
    /\ store' = [store EXCEPT ![NCtx + t] = CtxDefault]
    /\ atCall' = [atCall EXCEPT ![t] = store[t]]
    /\ cpc' = [cpc EXCEPT ![t] = "suspended"]
    /\ UNCHANGED <<readVal, seen>>
    /\ UNCHANGED <<poolVars, threadVars, queueVars, patchVars>>

\* run_sync, line 82: copy_context() makes a new context object holding the
\* caller's values; copy_context().run is what the executor gets to call
run_sync_ctx(t) ==
    /\ cpc[t] = "ready"
    /\ wctx' = [wctx EXCEPT ![t] = NCtx + t]
    /\ store' = [store EXCEPT ![NCtx + t] = store[t]]
    /\ atCall' = [atCall EXCEPT ![t] = store[t]]
    /\ cpc' = [cpc EXCEPT ![t] = "suspended"]
    /\ UNCHANGED <<readVal, seen>>
    /\ UNCHANGED <<poolVars, threadVars, queueVars, patchVars>>

\* func, on the worker thread, reads the context variable
FnRead(t) ==
    /\ cpc[t] = "suspended"
    /\ readVal' = [readVal EXCEPT ![t] = store[wctx[t]]]
    /\ cpc' = [cpc EXCEPT ![t] = "fnread"]
    /\ UNCHANGED <<store, wctx, atCall, seen>>
    /\ UNCHANGED <<poolVars, threadVars, queueVars, patchVars>>

\* func, on the worker thread, sets the context variable
FnWrite(t, v) ==
    /\ cpc[t] = "fnread"
    /\ store' = [store EXCEPT ![wctx[t]] = v]
    /\ UNCHANGED <<wctx, cpc, atCall, readVal, seen>>
    /\ UNCHANGED <<poolVars, threadVars, queueVars, patchVars>>

\* func returns
FnDone(t) ==
    /\ cpc[t] = "fnread"
    /\ cpc' = [cpc EXCEPT ![t] = "fndone"]
    /\ UNCHANGED <<store, wctx, atCall, readVal, seen>>
    /\ UNCHANGED <<poolVars, threadVars, queueVars, patchVars>>

\* the coroutine resumes from the await and reads the context variable
CtxResume(t) ==
    /\ cpc[t] = "fndone"
    /\ seen' = [seen EXCEPT ![t] = store[t]]
    /\ cpc' = [cpc EXCEPT ![t] = "resumed"]
    /\ UNCHANGED <<store, wctx, atCall, readVal>>
    /\ UNCHANGED <<poolVars, threadVars, queueVars, patchVars>>

CtxNext ==
    \/ \E t \in CtxTasks, v \in CtxVals : CtxSet(t, v)
    \/ \E t \in CtxTasks : run_sync_ctx(t)
    \/ \E t \in CtxTasks : FnRead(t)
    \/ \E t \in CtxTasks, v \in CtxVals : FnWrite(t, v)
    \/ \E t \in CtxTasks : FnDone(t)
    \/ \E t \in CtxTasks : CtxResume(t)

\* ------------------------------------------------------ ProxyListenerEC2
\* fix_creation_date(method, path, response)
fix_creation_date ==
    IF Decodable(content)
    THEN /\ content' = SubFrom(content, 1)
         /\ contentLength' = StrLen(SubFrom(content, 1))
    ELSE UNCHANGED <<content, contentLength>>

\* the backend's response reaches the listener: any payload, with the
\* Content-Length the backend computed for it
ForwardResponse(p) ==
    /\ ppc = "idle"
    /\ ppc' = "in"
    /\ content' = p
    /\ contentLength' = ByteLength(p)
    /\ UNCHANGED <<poolVars, threadVars, queueVars, ctxVars>>

\* ProxyListenerEC2.return_response: `if response.content:` fix_creation_date
return_response ==
    /\ ppc = "in"
    /\ ppc' = "out"
    /\ IF content # <<>> THEN fix_creation_date ELSE UNCHANGED <<content, contentLength>>
    /\ UNCHANGED <<poolVars, threadVars, queueVars, ctxVars>>

PatchNext ==
    \/ ppc = "idle" /\ \E p \in Payloads : ForwardResponse(p)
    \/ return_response

\* AsyncThreads started directly, and the callers of stop
StopNext ==
    \/ \E k \in {"none", "waiter"} : RunAsyncDirect(k)
    \/ \E th \in ThreadIds : RunFuncBegin(th)
    \/ \E th \in ThreadIds : RunInitializer(th)
    \/ \E th \in ThreadIds : WaiterObserve(th)
    \/ \E s \in Stoppers, th \in ThreadIds : StopCall(s, th)
    \/ \E s \in Stoppers : StopSet(s)
    \/ \E s \in Stoppers : StopClear(s)

\* the callers of get_named_event_loop and the loop threads they start
RegistryNext ==
    \/ \E th \in ThreadIds : RunFuncBegin(th)
    \/ \E th \in ThreadIds : RunInitializer(th)
    \/ \E c \in Callers, n \in Names : GetCheck(c, n)
    \/ \E c \in Callers : GetSpawn(c)
    \/ \E c \in Callers : GetReadback(c)
    \/ \E c \in Callers : GetReset(c)

PoolNext ==
    \/ \E t \in TaskIds, o \in Outcomes : CallSubmit(t, o)
    \/ \E t \in TaskIds, o \in Outcomes : run_sync(t, o)
    \/ \E w \in 1..(CoreSize + 1) : WorkerTake(w)
    \/ \E w \in 1..(CoreSize + 1) : WorkerFinish(w)
    \/ \E t \in TaskIds : TransientStart(t)
    \/ \E t \in TaskIds : TransientFinish(t)
    \/ OpenGate
    \/ \E t \in TaskIds : CoStart(t)
    \/ \E t \in TaskIds : CoResume(t)
    \/ \E t \in TaskIds : CoEnd(t)

Next == PoolNext \/ StopNext \/ RegistryNext \/ QueueNext \/ CtxNext \/ PatchNext

PoolSpec == Init /\ [][PoolNext]_vars

StopSpec == Init /\ [][StopNext]_vars

RegistrySpec == Init /\ [][RegistryNext]_vars

QueueSpec == Init /\ [][QueueNext]_vars

CtxSpec == Init /\ [][CtxNext]_vars

PatchSpec == Init /\ [][PatchNext]_vars

Spec == Init /\ [][Next]_vars

\* the worker thread running get() and the event loop are scheduled fairly,
\* and every queue.get(timeout=1) ends
QueueFairness ==
    \A r \in Receivers :
        /\ WF_vars(RecvCheck(r))
        /\ WF_vars(RecvGetItem(r) \/ RecvTimeout(r))
        /\ WF_vars(RecvResume(r))

QueueFairSpec == QueueSpec /\ QueueFairness

\* every pool thread, the gate's owner and the event loop are scheduled fairly
PoolFairness ==
    /\ \A w \in 1..(CoreSize + 1) : WF_vars(WorkerTake(w)) /\ WF_vars(WorkerFinish(w))
    /\ \A t \in TaskIds : WF_vars(TransientStart(t)) /\ WF_vars(TransientFinish(t))
    /\ WF_vars(OpenGate)

PoolFairSpec == PoolSpec /\ PoolFairness

\* every AsyncThread and every caller of stop is scheduled fairly
ThreadFairness ==
    /\ \A th \in ThreadIds :
          WF_vars(RunFuncBegin(th)) /\ WF_vars(RunInitializer(th)) /\ WF_vars(WaiterObserve(th))
    /\ \A s \in Stoppers : WF_vars(StopSet(s)) /\ WF_vars(StopClear(s))

StopFairSpec == StopSpec /\ ThreadFairness

TypeOK ==
    /\ hasSem \in BOOLEAN
    /\ idleSem \in Nat
    /\ status \in [TaskIds -> {"new", "queued", "spawned", "running", "done"}]
    /\ ranOn \in [TaskIds -> {"none", "persistent", "transient"}]
    /\ future \in [TaskIds -> Futures]
    /\ current \in TaskIds \cup {NoTask}

\* ------------------------------------------------------------------ claims
Submitted(t) == status[t] # "new"
InFlight(t) == status[t] \in {"queued", "spawned", "running"}
AllCoreBlocked ==
    /\ Len(pworkers) = CoreSize
    /\ \A w \in 1..Len(pworkers) : pworkers[w] \in TaskIds
    /\ ~gate

\* C1: submit hands the task to the persistent pool exactly when the pool has
\* spare persistent capacity (an idle persistent thread, or fewer than
\* core_size live persistent threads), and only otherwise starts a transient
\* thread for it.
C1_RoutesBySpareCapacity ==
    \A t \in TaskIds :
        Submitted(t) => (ranOn[t] = "persistent" <=> spareAtSubmit[t])

\* C2: submit never waits for capacity: whatever the pool's state, a caller
\* that is about to submit (directly or through run_sync) can take the step,
\* which returns the future.
C2_SubmitNeverBlocks ==
    \A t \in TaskIds :
        /\ (status[t] = "new" /\ co[t] = "ready" /\ Earlier(t))
              => ENABLED (\E o \in Outcomes : CallSubmit(t, o))
        /\ (status[t] = "new" /\ co[t] = "running" /\ current = t)
              => ENABLED (\E o \in Outcomes : run_sync(t, o))

\* a submit has returned while every core thread was blocked in a task
C2_Witness ==
    /\ AllCoreBlocked
    /\ \E t \in TaskIds : ranOn[t] = "transient" /\ status[t] = "spawned"

\* C3: under fair scheduling, with callables that return once all submitted
\* tasks block together, every future returned by submit is completed.
C3_FuturesComplete ==
    \A t \in TaskIds : Submitted(t) ~> (future[t].state # "pending")

\* core_size + 1 tasks were blocking at once and all their futures completed
C3_Witness ==
    /\ \A t \in TaskIds : future[t].state # "pending"
    /\ Cardinality({t \in TaskIds : ranOn[t] = "persistent"}) = CoreSize
    /\ \E t \in TaskIds : ranOn[t] = "transient"

\* the AsyncThread is in its serve state
Running(th) == tpc[th] \in {"until_complete", "forever"}

\* C4: once stop() has set the shutdown signal of a running AsyncThread, the
\* thread eventually leaves its serve loop and is terminated.
C4_StopTerminates ==
    \A th \in ThreadIds : (Running(th) /\ eventSet[th]) ~> (tpc[th] = "terminated")

\* C5: stop() calls made one after the other: none faults, the first one that
\* finds the shutdown signal sets it, a later one changes nothing, and the
\* signal once set is never reset.
C5_StopIdempotent ==
    /\ [](\A s \in Stoppers : spc[s] = "fault" => overlap[starget[s]])
    /\ [](\A th \in ThreadIds :
            (stopLog[th] \in {"hit", "hit_noop"} /\ ~overlap[th]
                /\ ~(\E s \in Stoppers : spc[s] = "set" /\ starget[s] = th))
              => eventSet[th])
    /\ [][\A th \in ThreadIds :
            /\ eventSet[th] => eventSet'[th]
            /\ (stopLog[th] = "hit" /\ stopLog'[th] = "hit_noop" /\ ~overlap'[th])
                  => (eventSet' = eventSet /\ shutdown_event' = shutdown_event
                        /\ spc' = spc)]_vars

\* a second stop() after a completed first one found nothing to do
C5_Witness ==
    \E th \in ThreadIds :
        /\ stopLog[th] = "hit_noop" /\ ~overlap[th] /\ eventSet[th]
        /\ \A s \in Stoppers : spc[s] = "idle"

\* the loop threads started for name n
LoopThreads(n) == {th \in Started : tkind[th] = "register" /\ tname[th] = n}

\* every call for n that saw no entry has started its thread, and every loop
\* thread started for n has recorded its loop
Settled(n) ==
    /\ EVENT_LOOPS[n] # NoThread
    /\ \A c \in Callers : gpc[c] = "spawn" => gname[c] # n
    /\ \A th \in LoopThreads(n) : tpc[th] = "forever"

\* C6: overlapping calls for an unregistered name may each start a loop
\* thread; once all of those threads have recorded their loop, the entry for
\* the name never changes again, no further thread is started for it, and
\* every call that returns from then on returns that entry.
C6_StableOnceSettled ==
    [][\A n \in Names :
          Settled(n) =>
            /\ Settled(n)'
            /\ EVENT_LOOPS'[n] = EVENT_LOOPS[n]
            /\ LoopThreads(n)' = LoopThreads(n)
            /\ \A c \in Callers :
                  (gname'[c] = n /\ gpc'[c] # gpc[c] /\ gpc[c] \in {"idle", "sleep"})
                    => (gpc'[c] = "done" /\ gret'[c] = EVENT_LOOPS[n])]_vars

\* two loop threads exist for one name, and a later call returned the entry
C6_Witness ==
    \E n \in Names :
        /\ Settled(n)
        /\ Cardinality(LoopThreads(n)) >= 2
        /\ \E c \in Callers : gpc[c] = "done" /\ gfast[c] /\ gname[c] = n

\* C7: a call for a name that has a registered handle returns that handle at
\* once and starts no thread, leaving the registry and TMP_THREADS unchanged.
C7_RegisteredLookupIsPure ==
    [][\A c \in Callers, n \in Names :
          (gpc[c] = "idle" /\ gname'[c] = n /\ EVENT_LOOPS[n] # NoThread)
            => /\ gpc'[c] = "done"
               /\ gret'[c] = EVENT_LOOPS[n]
               /\ UNCHANGED <<EVENT_LOOPS, TMP_THREADS, tpc>>]_vars

\* a call found the name registered and returned its handle
C7_Witness ==
    \E c \in Callers :
        /\ gpc[c] = "done" /\ gfast[c]
        /\ gret[c] = EVENT_LOOPS[gname[c]]
        /\ Len(TMP_THREADS) = 1 + Cardinality(Started)

\* C8: while the function handed to run_sync is in the pool, the event loop is
\* not held by the calling coroutine and can start another ready coroutine;
\* the calling coroutine is resumed only when the worker has completed it.
C8_OnlyCallerSuspends ==
    \A t \in TaskIds :
        /\ (co[t] # "ready" /\ InFlight(t)) => (co[t] = "suspended" /\ current # t)
        /\ co[t] \in {"resumed", "finished"} => status[t] = "done"
        /\ \A u \in TaskIds :
              (co[t] = "suspended" /\ current = NoTask /\ co[u] = "ready"
                 /\ status[u] = "new" /\ Earlier(u)) => ENABLED CoStart(u)

\* another coroutine runs on the loop while the first one's function executes
C8_Witness ==
    \E t, u \in TaskIds :
        /\ co[t] = "suspended" /\ status[t] = "running"
        /\ current = u /\ u # t

\* C9: the coroutine awaiting run_sync resumes with exactly the outcome of a
\* direct call of the function: its return value, or its fault re-raised.
C9_OutcomeTransparent ==
    \A t \in TaskIds :
        co[t] \in {"resumed", "finished"} => coOutcome[t] = fn[t]

\* a fault came back through a transient thread and through a core thread
C9_Witness ==
    \E t, u \in TaskIds :
        /\ co[t] = "finished" /\ ranOn[t] = "transient" /\ coOutcome[t].kind = "fault"
        /\ co[u] = "finished" /\ ranOn[u] = "persistent" /\ coOutcome[u].kind = "fault"

\* C10: a fault raised by a submitted task completes the future that submit
\* returned and is never raised on the thread that called submit.
C10_FaultCaptured ==
    \A t \in TaskIds :
        /\ callerFault[t] = NoOutcome
        /\ (status[t] = "done" /\ fn[t].kind = "fault")
              => future[t] = [state |-> "exception", val |-> fn[t].val]

\* faulting tasks completed on a core thread and on a transient thread
C10_Witness ==
    \E t, u \in TaskIds :
        /\ ranOn[t] = "persistent" /\ future[t].state = "exception"
        /\ ranOn[u] = "transient" /\ future[u].state = "exception"
\* C17: the number of live persistent pool threads never exceeds core_size,
\* whatever has been submitted and completed; only transient threads add up.
C17_CoreBounded == Len(pworkers) <= CoreSize

\* the core pool is full and further tasks run on transient threads
C17_Witness ==
    /\ Len(pworkers) = CoreSize
    /\ \E t \in TaskIds : ranOn[t] = "transient" /\ status[t] = "done"
    /\ \E t \in TaskIds : ranOn[t] = "persistent" /\ status[t] = "done"

\* a stop() call on th has returned and no other is under way
StopReturned(th) == stopLog[th] # "none" /\ StopInFlight(th) = {}

\* C18: no stop() request is lost: once a stop() call made after start() has
\* returned, the shutdown signal the initializer receives is set.
C18_StopNeverLost ==
    \A th \in ThreadIds :
        (StopReturned(th) /\ initEvent[th] # "unset"
            /\ ~(\E s \in Stoppers : spc[s] = "fault" /\ starget[s] = th))
          => (initEvent[th] = "event" /\ eventSet[th])

\* C19: stop() does not fault when two threads call it at the same time on
\* one AsyncThread.
C19_ConcurrentStopNoFault ==
    \A s \in Stoppers : spc[s] # "fault"

\* C20 as stated: a call whose own loop thread has not recorded its entry at
\* the read-back ends in a lookup fault.
C20_OwnThreadUnrecordedFaults ==
    [][\A c \in Callers :
          (gpc[c] = "sleep" /\ gpc'[c] # "sleep" /\ tpc[gthread[c]] # "forever")
            => gpc'[c] = "fault"]_vars

\* C20 amended: every handle returned is a loop recorded under the name by a
\* loop thread started for it; a read-back that finds no entry for the name
\* ends in a lookup fault, leaves the registry as it is, and the thread the
\* call started stays alive.
C20_NeverAbsentHandle ==
    /\ [](\A c \in Callers :
            gpc[c] = "done" =>
              /\ gret[c] # NoThread
              /\ gret[c] \in LoopThreads(gname[c])
              /\ tpc[gret[c]] = "forever")
    /\ [][\A c \in Callers :
            (gpc[c] = "sleep" /\ gpc'[c] # "sleep")
              => IF EVENT_LOOPS[gname[c]] = NoThread
                 THEN /\ gpc'[c] = "fault"
                      /\ EVENT_LOOPS' = EVENT_LOOPS
                      /\ tpc' = tpc
                      /\ tpc[gthread[c]] \in {"started", "init"}
                 ELSE gpc'[c] = "done" /\ gret'[c] = EVENT_LOOPS[gname[c]]]_vars
    /\ [](\A th \in ThreadIds : tpc[th] \notin {"died", "terminated"})

\* a read-back came too early: lookup fault, no entry, the thread still alive
C20_Witness ==
    \E c \in Callers :
        /\ gpc[c] = "fault"
        /\ EVENT_LOOPS[gname[c]] = NoThread
        /\ tpc[gthread[c]] \in {"started", "init"}
\* C11 .. C14: receive_from_queue
RecvPending(r) == rpc[r] \in {"check", "get", "got"}

\* C11: a retrieval attempt that finds an item returns it (the head of the
\* queue) to the caller; an absent result is returned, without raising, when
\* the stop flag is set; the call never raises.
C11_PresentOrAbsent ==
    /\ [](\A r \in Receivers :
            /\ rpc[r] # "raised"
            /\ (rpc[r] \in {"got", "returned"} /\ rres[r] = NoItem) => INFRA_STOPPED
            /\ rpc[r] = "returned" => rmsg[r] = rres[r]
            /\ (rpc[r] = "returned" /\ rmsg[r] # NoItem) =>
                  /\ rmsg[r] \in 1..produced
                  /\ \A q \in Receivers \ {r} : rres[q] # rmsg[r])
    /\ [][\A r \in Receivers :
            /\ (rpc[r] = "get" /\ rpc'[r] # "get" /\ queue # <<>> /\ rlast'[r] # "fault")
                  => (rpc'[r] = "got" /\ rres'[r] = Head(queue) /\ queue' = Tail(queue))
            /\ (rpc[r] = "check" /\ rpc'[r] # "check" /\ INFRA_STOPPED /\ queue = <<>>)
                  => (rpc'[r] = "got" /\ rres'[r] = NoItem)]_vars

\* one call returned an item, another returned absent on shutdown, queue empty
C11_Witness ==
    \E r, q \in Receivers :
        /\ rpc[r] = "returned" /\ rmsg[r] # NoItem
        /\ rpc[q] = "returned" /\ rmsg[q] = NoItem
        /\ INFRA_STOPPED /\ queue = <<>>

\* C12: once the stop flag is set, every pending receive_from_queue call
\* returns, even if the queue stays empty.
C12_ReturnsAfterStop ==
    \A r \in Receivers : (INFRA_STOPPED /\ RecvPending(r)) ~> (rpc[r] = "returned")

\* a call that had timed out on the empty queue returned absent after the stop
C12_Witness ==
    \E r \in Receivers :
        /\ rpc[r] = "returned" /\ rmsg[r] = NoItem /\ rlast[r] = "timeout"
        /\ INFRA_STOPPED /\ produced = 0

\* C13: a timeout of one attempt leads to the next round, while any other
\* fault of queue.get is raised to the caller of receive_from_queue.
C13_QueueFaultPropagates ==
    [][\A r \in Receivers :
          (rpc[r] = "get" /\ rpc'[r] # "get") =>
            /\ rlast'[r] = "timeout" => rpc'[r] = "check"
            /\ rlast'[r] = "fault" => rpc'[r] = "raised"]_vars

\* C14: the stop flag is looked at before every retrieval attempt; when it is
\* set there, the call returns absent and retrieves nothing, leaving the queue
\* as it is even when it holds items.
C14_StopCheckedFirst ==
    [][\A r \in Receivers :
          /\ (rpc[r] = "check" /\ rpc'[r] # "check" /\ INFRA_STOPPED)
                => (rpc'[r] = "got" /\ rres'[r] = NoItem /\ queue' = queue)
          /\ (rpc[r] # "get" /\ rpc'[r] = "get")
                => (rpc[r] = "check" /\ ~INFRA_STOPPED)]_vars

\* a call returned absent on shutdown although the queue held an item
C14_Witness ==
    \E r \in Receivers :
        /\ rpc[r] \in {"got", "returned"} /\ rres[r] = NoItem
        /\ INFRA_STOPPED /\ queue # <<>>
\* C15: the function handed to run_sync reads, for the context variable, the
\* value the calling coroutine had at the call, and what the function sets is
\* not seen by the coroutine after it resumes.
C15_ContextSnapshot ==
    \A t \in CtxTasks :
        /\ readVal[t] # NoRead => readVal[t] = atCall[t]
        /\ cpc[t] \in {"suspended", "fnread", "fndone"} => store[t] = atCall[t]
        /\ cpc[t] = "resumed" => seen[t] = atCall[t]

\* the function read the caller's non-default value, set another one, and the
\* resumed coroutine still sees its own
C15_Witness ==
    \E t \in CtxTasks :
        /\ cpc[t] = "resumed"
        /\ atCall[t] # CtxDefault
        /\ readVal[t] = atCall[t]
        /\ store[wctx[t]] # atCall[t]
        /\ seen[t] = atCall[t]

\* C16: after fix_creation_date on a payload that decodes as text, the
\* Content-Length header is the byte length of the rewritten content.
C16_LengthIsByteLength ==
    (ppc = "out" /\ content # <<>> /\ Decodable(content))
      => contentLength = ByteLength(content)
====
